---- MODULE Spec2Model ----
(***************************************************************************)
(* H.264 decoder filter (src/h264_decoder_filter.cpp): the hardware        *)
(* compatibility advisor (hasDriverVersionReached,                         *)
(* checkHWCompatibilityForH264) and the backend negotiation of             *)
(* CH264DecoderFilter (CompleteConnect, BreakConnect, ActivateDXVA1,       *)
(* ActivateDXVA2, CreateDXVA2Decoder, Receive), the custom output          *)
(* allocator (CDXVA2Sample, CDXVA2Allocator), buffer negotiation           *)
(* (DecideBufferSize), the decode loop of Receive against NewSegment, the   *)
(* allocator's Free and BreakConnect, format confirmation                  *)
(* (ConfirmDXVA2UncompFormat) and the lifetime of the device handle.       *)
(***************************************************************************)
EXTENDS Integers, Sequences, FiniteSets, TLC

VARIABLES
    hw,            \* CHardwareEnv::get(): vendor, device id, driver version, OS family
    call,          \* the advisor call under examination: its arguments and its result
    inputConnected,\* m_pInput is connected
    outPin,        \* m_pOutput: "disconnected", "connecting" (m_Connected set), "connected"
    m_preDecode,   \* the pre-decode codec context, NoCodec when the pointer is null
    m_decoder,     \* the active backend, NoDecoder when the pointer is null
    epoch,         \* number of output-pin connections begun so far
    neg,           \* what the last CompleteConnect(PINDIR_OUTPUT) did
    recv,          \* result of the last Receive
    m_surfaces,    \* CH264DecoderFilter::m_surfaces, what GetSurface reads
    alloc,         \* CDXVA2Allocator: m_lCount, m_lAllocated, m_lFree, commit state
    outstanding,   \* samples handed out by GetBuffer and not yet released
    stray,         \* samples constructed and neither pooled nor deleted
    allocOp,       \* what the last allocator operation did
    query,         \* the last CDXVA2Sample::GetService call and its outcome
    rx,            \* the streaming thread inside Receive
    seg,           \* the control thread inside NewSegment
    m_decodeAccess,\* owner of the decode lock, "none" when it is free
    m_averageTimePerFrame, \* frame duration taken from the input media type
    dev,           \* the device manager's handles and m_deviceHandle
    ctl            \* a thread other than the streaming thread that reaches the backend

allocVars == <<m_surfaces, alloc, outstanding, stray, allocOp, query>>

streamVars == <<rx, seg, m_decodeAccess>>

filterVars == <<hw, call, inputConnected, outPin, m_preDecode, m_decoder, epoch, neg, recv>>

lateVars == <<m_averageTimePerFrame, dev, ctl>>

vars == <<filterVars, allocVars, streamVars, lateVars>>

-----------------------------------------------------------------------------
(* Machine arithmetic.                                                     *)

Min(a, b) == IF a < b THEN a ELSE b

\* The 32-bit signed value whose high word is hi and whose low word is lo
\* (MAKELONG); hi, lo in 0..65535.
MakeLong(hi, lo) ==
    IF hi >= 32768 THEN (hi - 65536) * 65536 + lo ELSE hi * 65536 + lo

\* HIWORD / LOWORD of a 32-bit value held as a signed integer.
HIWORD(l) ==
    IF l < 0 THEN (((l + 2147483647) + 1) \div 65536) + 32768 ELSE l \div 65536

LOWORD(l) == l % 65536

\* LARGE_INTEGER holding the driver version major.minor.build.revision,
\* four unsigned 16-bit fields packed into 64 bits.
PackVersion(t) ==
    [HighPart |-> MakeLong(t[1], t[2]), LowPart |-> MakeLong(t[3], t[4])]

\* int * int as the 32-bit imul computes it (wraps modulo 2^32), for
\* factors in 0 .. 2^17.
MulInt32(w, h) ==
    LET w1 == w \div 256
        w0 == w % 256
        h1 == h \div 256
        h0 == h % 256
        mid == (w1 * h0 + w0 * h1) * 256 + w0 * h0
        lo == mid % 65536
        hi == (w1 * h1 + mid \div 65536) % 65536
    IN  MakeLong(hi, lo)

\* n / d of two ints, n >= 0 and d # 0: the quotient truncates toward zero.
DivInt32(n, d) ==
    IF d > 0 THEN n \div d
    ELSE IF d = (-2147483647) - 1 THEN 0
    ELSE -(n \div (-d))

-----------------------------------------------------------------------------
(* The hardware capability advisor.                                        *)

DXVA_UNSUPPORTED_LEVEL == 1
DXVA_TOO_MUCH_REF_FRAMES == 2

hasDriverVersionReached_strict(version, a, b, c, d) ==
    IF HIWORD(version.HighPart) > a THEN TRUE
    ELSE IF HIWORD(version.HighPart) = a
    THEN IF LOWORD(version.HighPart) > b THEN TRUE
         ELSE IF LOWORD(version.HighPart) = b
         THEN IF HIWORD(version.LowPart) > c THEN TRUE
              ELSE IF HIWORD(version.LowPart) = c
              THEN LOWORD(version.LowPart) > d
              ELSE FALSE
         ELSE FALSE
    ELSE FALSE

hasDriverVersionReached(version, a, b, c, d) ==
    IF HIWORD(version.HighPart) > a THEN TRUE
    ELSE IF HIWORD(version.HighPart) = a
    THEN IF LOWORD(version.HighPart) > b THEN TRUE
         ELSE IF LOWORD(version.HighPart) = b
         THEN IF HIWORD(version.LowPart) > c THEN TRUE
              ELSE IF HIWORD(version.LowPart) = c
              THEN LOWORD(version.LowPart) >= d
              ELSE FALSE
         ELSE FALSE
    ELSE FALSE

\* const int maxRefFramesDPB41 = std::min(11, 8388608 / (width * height));
\* area is width * height as computed, area # 0.
maxRefFramesDPB41_ceil12(area) == Min(12, DivInt32(8388608, area))

maxRefFramesDPB41(area) == Min(11, DivInt32(8388608, area))

\* The vendor branches: the pair <<noLevel51Support, maxRefFrames>> they
\* leave behind, starting from <<1, dflt>>.
vendorGate(env, width, dflt) ==
    IF env.vendor = "NVIDIA"
    THEN IF env.vista
         THEN IF hasDriverVersionReached(env.driver, 7, 15, 11, 7800)
              THEN <<0, IF width >= 1280 THEN 16 ELSE 11>>
              ELSE <<1, dflt>>
         ELSE IF hasDriverVersionReached(env.driver, 6, 14, 11, 7800)
              THEN <<0, 14>>
              ELSE <<1, dflt>>
    ELSE IF env.vendor = "S3"
    THEN <<0, dflt>>
    ELSE IF env.vendor = "ATI"
    THEN IF (104 = env.device \div 256) \/ (148 = env.device \div 256)
         THEN IF hasDriverVersionReached(env.driver, 8, 14, 1, 6105)
              THEN <<0, 16>>
              ELSE <<1, dflt>>
         ELSE <<1, dflt>>
    ELSE <<1, dflt>>

tooMuchRefFrames_ge(refFrameCount, maxRefFrames) ==
    IF refFrameCount >= maxRefFrames THEN 1 ELSE 0

\* if (refFrameCount > maxRefFrames) tooMuchRefFrames = 1;
tooMuchRefFrames(refFrameCount, maxRefFrames) ==
    IF refFrameCount > maxRefFrames THEN 1 ELSE 0

hasVideoLevelReached51_gt(videoLevel) == IF videoLevel > 51 THEN 1 ELSE 0

\* int hasVideoLevelReached51 = (videoLevel >= 51) ? 1 : 0;
hasVideoLevelReached51(videoLevel) == IF videoLevel >= 51 THEN 1 ELSE 0

\* The set of values the call can return: one value, or none when the
\* division by width * height = 0 traps.
checkHWCompatibilityForH264(width, height, videoLevel, refFrameCount, env) ==
    IF videoLevel >= 0
    THEN LET area == MulInt32(width, height)
         IN  IF area = 0 THEN {}
             ELSE LET g == vendorGate(env, width, maxRefFramesDPB41(area))
                  IN  { hasVideoLevelReached51(videoLevel) * g[1]
                            * DXVA_UNSUPPORTED_LEVEL
                        + tooMuchRefFrames(refFrameCount, g[2])
                            * DXVA_TOO_MUCH_REF_FRAMES }
    ELSE { hasVideoLevelReached51(videoLevel) * 1 * DXVA_UNSUPPORTED_LEVEL
           + 0 * DXVA_TOO_MUCH_REF_FRAMES }

-----------------------------------------------------------------------------
(* Inputs of the advisor.                                                  *)

Vendors == {"NVIDIA", "S3", "ATI", "OTHER"}

\* 0x6898 and 0x9440 are in the gated ATI device ranges, 0x1234 is not.
Devices == {26776, 37952, 4660}

DriverVersions ==
    { <<7, 15, 11, 7800>>, <<7, 15, 11, 7799>>, <<6, 14, 11, 7800>>,
      <<6, 14, 11, 7799>>, <<8, 14, 1, 6105>>, <<8, 14, 1, 6104>> }

HardwareEnv(vendor, device, version, vista) ==
    [vendor |-> vendor, device |-> device, version |-> version,
     driver |-> PackVersion(version), vista |-> vista]

AllHardware ==
    { HardwareEnv(v, d, t, o) :
        v \in Vendors, d \in Devices, t \in DriverVersions, o \in BOOLEAN }

DefaultHardware == HardwareEnv("OTHER", 4660, <<6, 14, 11, 7799>>, FALSE)

\* <<width, height>>; the last four overflow the 32-bit product: to
\* 131073, to -1, to a large negative value and to 0.
Dimensions ==
    { <<1, 1>>, <<720, 576>>, <<1279, 720>>, <<1280, 720>>, <<1920, 1088>>,
      <<4096, 2304>>, <<65537, 65537>>, <<65535, 65537>>, <<46341, 46341>>,
      <<65536, 65536>> }

VideoLevels == {-1, 0, 41, 50, 51, 52}

RefFrameCounts == {0, 4, 5, 8, 11, 12, 14, 15, 16, 17}

VersionFields == {0, 7, 65535}

VersionTuples ==
    { <<a, b, c, d>> : a \in VersionFields, b \in VersionFields,
                       c \in VersionFields, d \in VersionFields }

NoCall ==
    [fn |-> "none", done |-> FALSE, width |-> 0, height |-> 0, videoLevel |-> 0,
     refFrameCount |-> 0, version |-> <<0, 0, 0, 0>>, than |-> <<0, 0, 0, 0>>,
     result |-> {}, dpb41 |-> {}, reached |-> FALSE]

ClassifyCalls ==
    { [NoCall EXCEPT !.fn = "classify", !.width = d[1], !.height = d[2],
                     !.videoLevel = l, !.refFrameCount = r] :
        d \in Dimensions, l \in VideoLevels, r \in RefFrameCounts }

ReachedCalls ==
    { [NoCall EXCEPT !.fn = "reached", !.version = v, !.than = t] :
        v \in VersionTuples, t \in VersionTuples }

-----------------------------------------------------------------------------
(* The filter: bounds and inputs.                                          *)

\* Output-pin connections begun in one behaviour.
MaxConnects == 2

\* Decoder device GUIDs the acceleration service offers.
MaxGuids == 2

\* supportedFormats[]: the subtypes IsFormatSupported recognises.
SupportedFormats ==
    {"DXVA2_ModeH264_E", "DXVA2_ModeH264_F", "NV12", "YV12", "YUY2"}

IsFormatSupported(formatID) == formatID \in SupportedFormats

\* Profiles a legacy renderer asks to activate.
DXVA1Profiles == {"DXVA2_ModeH264_E", "DXVA2_ModeH264_F"}

NoCodec ==
    [present |-> FALSE, width |-> 0, height |-> 0, videoLevel |-> 0,
     refFrameCount |-> 0]

\* Streams CFFMPEG::CreateCodec can be given.
Streams ==
    { [present |-> TRUE, width |-> 1280, height |-> 720, videoLevel |-> l,
       refFrameCount |-> r] : l \in {41, 51}, r \in {4, 16} }

FilterHardware ==
    { HardwareEnv("OTHER", 4660, <<6, 14, 11, 7799>>, TRUE),
      HardwareEnv("S3", 4660, <<6, 14, 11, 7799>>, TRUE) }

NoDecoder == [kind |-> "none", id |-> "GUID_NULL", epoch |-> 0]

\* One GUID offered by GetDecoderDeviceGuids: fmt is whether
\* ConfirmDXVA2UncompFormat succeeds for it, create is where
\* CreateDXVA2Decoder ends for it.
Candidates ==
    { [id |-> "DXVA2_ModeMPEG2_VLD", fmt |-> FALSE, create |-> "ok"],
      [id |-> "DXVA2_ModeH264_E", fmt |-> FALSE, create |-> "ok"],
      [id |-> "DXVA2_ModeH264_E", fmt |-> TRUE, create |-> "ok"],
      [id |-> "DXVA2_ModeH264_E", fmt |-> TRUE, create |-> "surface"],
      [id |-> "DXVA2_ModeH264_E", fmt |-> TRUE, create |-> "decoder"] }

GuidLists == UNION { [1..n -> Candidates] : n \in 0..MaxGuids }

\* The downstream renderer's acceleration service. stage "unavailable": a
\* call before the GUID loop fails; "noAccel": the acceleration service
\* asked for in CreateDXVA2Decoder is refused; evr: configureEVRForDXVA2
\* succeeds.
Services ==
    { [stage |-> st, evr |-> e, guids |-> g] :
        st \in {"unavailable", "noAccel", "ok"}, e \in BOOLEAN, g \in GuidLists }

-----------------------------------------------------------------------------
(* Legacy-HW activation.                                                   *)

\* ActivateDXVA1: the outcomes of one call, each with r, the HRESULT,
\* decoder, m_decoder afterwards, compat, what the advisor answered (-1
\* when it was not asked), and fresh, whether a backend was instantiated.
\* accelOk: accel is not null (decoderID never is); ep: the connection the
\* call belongs to.
ActivateDXVA1Outcomes(decoder, preDecode, env, accelOk, decoderID, ep) ==
    IF ~preDecode.present
    THEN { [r |-> "E_FAIL", decoder |-> decoder, compat |-> -1, fresh |-> FALSE] }
    ELSE IF ~accelOk
    THEN { [r |-> "E_POINTER", decoder |-> decoder, compat |-> -1, fresh |-> FALSE] }
    ELSE IF decoder # NoDecoder /\ decoder.id = decoderID
    THEN { [r |-> "S_OK", decoder |-> decoder, compat |-> -1, fresh |-> FALSE] }
    ELSE { IF DXVA_UNSUPPORTED_LEVEL = campatible
           THEN [r |-> "E_FAIL", decoder |-> NoDecoder, compat |-> campatible,
                 fresh |-> FALSE]
           ELSE [r |-> "S_OK",
                 decoder |-> [kind |-> "DXVA1", id |-> decoderID, epoch |-> ep],
                 compat |-> campatible, fresh |-> TRUE] :
             campatible \in checkHWCompatibilityForH264(
                    preDecode.width, preDecode.height, preDecode.videoLevel,
                    preDecode.refFrameCount, env) }

ActivateCalls ==
    { [fn |-> "ActivateDXVA1", done |-> FALSE, accelOk |-> a, decoderID |-> d,
       held |-> NoDecoder,
       out |-> [r |-> "none", compat |-> -1, fresh |-> FALSE]] :
        a \in BOOLEAN, d \in DXVA1Profiles }

-----------------------------------------------------------------------------
(* Modern-HW activation.                                                   *)

NoAttempt ==
    [r |-> "none", chosen |-> 0, stage |-> "none", surfaces |-> FALSE,
     created |-> FALSE, id |-> "GUID_NULL"]

\* CreateDXVA2Decoder for the candidate at index i.
CreateDXVA2Decoder(svc, i) ==
    LET c == svc.guids[i]
        at == [NoAttempt EXCEPT !.chosen = i, !.id = c.id]
    IN  IF svc.stage = "noAccel"
        THEN [at EXCEPT !.r = "E_FAIL", !.stage = "accel"]
        ELSE IF c.create = "surface"
        THEN [at EXCEPT !.r = "E_FAIL", !.stage = "surface", !.surfaces = TRUE]
        ELSE IF c.create = "decoder"
        THEN [at EXCEPT !.r = "E_FAIL", !.stage = "decoder", !.surfaces = TRUE]
        ELSE [at EXCEPT !.r = "S_OK", !.stage = "ok", !.surfaces = TRUE,
                        !.created = TRUE]

RECURSIVE ActivateDXVA2_firstOnly(_, _)
ActivateDXVA2_firstOnly(svc, i) ==
    IF i > Len(svc.guids)
    THEN [NoAttempt EXCEPT !.r = "E_FAIL"]
    ELSE IF ~IsFormatSupported(svc.guids[i].id)
    THEN ActivateDXVA2_firstOnly(svc, i + 1)
    ELSE IF ~svc.guids[i].fmt
    THEN [NoAttempt EXCEPT !.r = "E_FAIL", !.chosen = i, !.stage = "format"]
    ELSE IF ~svc.evr
    THEN [NoAttempt EXCEPT !.r = "E_FAIL", !.chosen = i, !.stage = "evr"]
    ELSE CreateDXVA2Decoder(svc, i)

\* The loop of ActivateDXVA2 over devGUIDs, from index i on.
RECURSIVE ActivateDXVA2_loop(_, _)
ActivateDXVA2_loop(svc, i) ==
    IF i > Len(svc.guids)
    THEN [NoAttempt EXCEPT !.r = "E_FAIL"]
    ELSE IF ~IsFormatSupported(svc.guids[i].id)
    THEN ActivateDXVA2_loop(svc, i + 1)
    ELSE IF ~svc.guids[i].fmt
    THEN ActivateDXVA2_loop(svc, i + 1)
    ELSE IF ~svc.evr
    THEN [NoAttempt EXCEPT !.r = "E_FAIL", !.chosen = i, !.stage = "evr"]
    ELSE CreateDXVA2Decoder(svc, i)

ActivateDXVA2(svc) ==
    IF svc.stage = "unavailable"
    THEN [NoAttempt EXCEPT !.r = "E_FAIL"]
    ELSE ActivateDXVA2_loop(svc, 1)

\* The else branch of CompleteConnect: a backend already there is kept if
\* its Init succeeds; without a backend ActivateDXVA2 is tried and the
\* software backend made when it fails. kept: m_decoder after the Init,
\* attempt: what ActivateDXVA2 did, final: m_decoder at the end.
BackendAfterConnect(held, initOk, svc, ep) ==
    LET kept == IF held # NoDecoder /\ ~initOk THEN NoDecoder ELSE held
        attempt == IF kept = NoDecoder THEN ActivateDXVA2(svc) ELSE NoAttempt
    IN  [kept |-> kept,
         attempt |-> attempt,
         final |->
            IF kept # NoDecoder THEN kept
            ELSE IF attempt.r = "S_OK"
            THEN [kind |-> "DXVA2", id |-> attempt.id, epoch |-> ep]
            ELSE [kind |-> "SW", id |-> "GUID_NULL", epoch |-> ep]]

\* Stages of an attempt that lie behind m_deviceHandle = deviceHandle: the
\* steps of CreateDXVA2Decoder.
AfterHandleKept == {"accel", "surface", "decoder", "ok"}

\* CloseDeviceHandle(h), called by the deleter of the shared_ptr.
CloseDeviceHandle(d, h) ==
    [d EXCEPT !.open = @ \ {h}, !.closes = [@ EXCEPT ![h] = @ + 1]]

\* OpenDeviceHandle: the next handle of the device manager.
OpenDeviceHandle(d) ==
    [d EXCEPT !.opened = @ + 1, !.open = @ \cup {d.opened + 1},
              !.closes = Append(@, 0)]

\* m_deviceHandle = deviceHandle: the member gives up the handle it owned,
\* which closes it, and shares the new one with the local.
AssignDeviceHandle(d, h) ==
    LET released == IF d.m_deviceHandle # 0 /\ d.m_deviceHandle # h
                    THEN CloseDeviceHandle(d, d.m_deviceHandle)
                    ELSE d
    IN  [released EXCEPT !.m_deviceHandle = h]

\* The local deviceHandle goes out of scope when ActivateDXVA2 returns:
\* the handle is closed unless the member owns it too.
ReleaseLocalHandle(d, h) ==
    IF d.m_deviceHandle = h THEN d ELSE CloseDeviceHandle(d, h)

\* The device handle through one ActivateDXVA2. opened: OpenDeviceHandle
\* was reached and succeeded, which it has whenever the GUID loop is
\* reached.
DeviceAfterActivate(d, attempt, opened) ==
    IF ~opened THEN d
    ELSE LET o == OpenDeviceHandle(d)
             h == o.opened
         IN  IF attempt.stage \in AfterHandleKept
             THEN ReleaseLocalHandle(AssignDeviceHandle(o, h), h)
             ELSE ReleaseLocalHandle(o, h)

-----------------------------------------------------------------------------
(* What the service offered to the last output connection, stated apart    *)
(* from the loop that walks it.                                            *)

Negotiable(svc) ==
    { i \in DOMAIN svc.guids :
        IsFormatSupported(svc.guids[i].id) /\ svc.guids[i].fmt }

WouldSucceed(svc, i) ==
    /\ svc.stage = "ok"
    /\ svc.evr
    /\ i \in Negotiable(svc)
    /\ svc.guids[i].create = "ok"

FirstNegotiable(svc) ==
    IF Negotiable(svc) = {} THEN 0
    ELSE CHOOSE i \in Negotiable(svc) : \A j \in Negotiable(svc) : i <= j

Offer(svc) ==
    [available |-> svc.stage # "unavailable",
     accel |-> svc.stage # "noAccel",
     evr |-> svc.evr,
     recognised |->
        Cardinality({ i \in DOMAIN svc.guids : IsFormatSupported(svc.guids[i].id) }),
     first |-> FirstNegotiable(svc),
     firstCreate |->
        IF FirstNegotiable(svc) = 0 THEN "none"
        ELSE svc.guids[FirstNegotiable(svc)].create,
     anyWouldSucceed |-> \E i \in DOMAIN svc.guids : WouldSucceed(svc, i)]

NoNegotiation ==
    [done |-> FALSE, ok |-> FALSE, held |-> NoDecoder, init |-> "none",
     attempt |-> NoAttempt, software |-> FALSE, result |-> "none",
     compat |-> {},
     offer |-> [available |-> FALSE, accel |-> FALSE, evr |-> FALSE,
                recognised |-> 0, first |-> 0, firstCreate |-> "none",
                anyWouldSucceed |-> FALSE]]

-----------------------------------------------------------------------------
(* The custom output allocator: CDXVA2Sample and CDXVA2Allocator.          *)

\* Largest buffer count given to the allocator (m_lCount).
MaxBuffers == 2

\* Alloc calls in one behaviour.
MaxAllocs == 2

\* Samples downstream holds at one time.
MaxOutstanding == 1

\* HRESULTs that are not failures.
SuccessCodes == {"S_OK", "S_FALSE", "VFW_S_NO_STOP_TIME"}

FAILED(r) == r \notin SuccessCodes

NullSurface == [d3d |-> -1]

\* The surface pointer the filter keeps for slot n.
Handle(n) == [d3d |-> 100 + n]

\* Contents m_surfaces can have: h264_decoder_filter.cpp has no statement
\* that fills it, the surface pool of the design holds one surface per
\* slot. Every length from 0 on is drawn.
SurfaceLists == { [i \in 1..k |-> Handle(i - 1)] : k \in 0..MaxBuffers }

\* CH264DecoderFilter::GetSurface(n), n >= 0.
GetSurface(surfaces, n) ==
    IF n < Len(surfaces) THEN surfaces[n + 1] ELSE NullSurface

\* CDXVA2Sample::CDXVA2Sample: m_surface(), m_surfaceID(0).
NewSample(uid) == [uid |-> uid, m_surface |-> NullSurface, m_surfaceID |-> 0]

setSurface(sample, surfaceID, surface) ==
    [sample EXCEPT !.m_surface = surface, !.m_surfaceID = surfaceID]

\* CDXVA2Sample::GetService: the outcomes the call can have. Calling
\* through the null m_surface is undefined: the pointer's assertion fires
\* or the call faults.
GetService(sample, service) ==
    IF service # "MR_BUFFER_SERVICE"
    THEN { [r |-> "MF_E_UNSUPPORTED_SERVICE", delegated |-> FALSE, nullDeref |-> FALSE] }
    ELSE IF sample.m_surface # NullSurface
    THEN { [r |-> "E_NOINTERFACE", delegated |-> FALSE, nullDeref |-> FALSE] }
    ELSE { [r |-> f, delegated |-> FALSE, nullDeref |-> TRUE] :
             f \in {"ASSERTION_FAILED", "ACCESS_VIOLATION"} }

FlushRequest == [e |-> "FlushDXVADecoder", uid |-> 0]

Deletes(free) == [k \in 1..Len(free) |-> [e |-> "delete", uid |-> free[k].uid]]

FreeEvents_deleteFirst(free) == Deletes(free) \o <<FlushRequest>>

\* What one CDXVA2Allocator::Free does, in order: the flush request, then
\* the samples of m_lFree deleted from the head on.
FreeEvents(free) == <<FlushRequest>> \o Deletes(free)

\* CDXVA2Allocator::Free on the allocator a.
Free(a) ==
    [a |-> [a EXCEPT !.m_lFree = <<>>, !.m_lAllocated = 0],
     events |-> FreeEvents(a.m_lFree)]

FirstSlot_offByOne(m_lCount) == m_lCount

\* for (m_lAllocated = m_lCount - 1; ...
FirstSlot(m_lCount) == m_lCount - 1

\* The for loop of Alloc from slot n down. failAt: the slot at which the
\* sample's constructor reports a failure (-1: none does). acc.m_lFree is
\* the list with its head first, acc.built the slots a sample was
\* constructed for, in order.
RECURSIVE AllocLoop(_, _, _, _, _)
AllocLoop(surfaces, n, failAt, uid, acc) ==
    IF n < 0
    THEN [acc EXCEPT !.m_lAllocated = n]
    ELSE LET sample == NewSample(uid)
             surf == GetSurface(surfaces, n)
             made == [acc EXCEPT !.m_lAllocated = n, !.built = Append(@, n)]
         IN  IF n = failAt
             THEN [made EXCEPT !.r = "E_OUTOFMEMORY", !.stray = {sample}]
             ELSE IF surf = NullSurface
             THEN [made EXCEPT !.r = "E_UNEXPECTED", !.stray = {sample}]
             ELSE AllocLoop(surfaces, n - 1, failAt, uid + 1,
                     [made EXCEPT !.m_lFree = <<setSurface(sample, n, surf)>> \o @])

\* CDXVA2Allocator::Alloc. base: what CBaseAllocator::Alloc answers.
Alloc(a, surfaces, base, failAt) ==
    IF FAILED(base)
    THEN [a |-> a, r |-> base, built |-> <<>>, frees |-> <<>>, stray |-> {}]
    ELSE LET old == Free(a)
             loop == AllocLoop(surfaces, FirstSlot(a.m_lCount), failAt, a.nextId,
                        [r |-> base, m_lFree |-> <<>>, m_lAllocated |-> 0,
                         built |-> <<>>, stray |-> {}])
             mid == [old.a EXCEPT !.m_lFree = loop.m_lFree,
                                  !.m_lAllocated = loop.m_lAllocated,
                                  !.nextId = a.nextId + Len(loop.built)]
         IN  IF FAILED(loop.r)
             THEN [a |-> Free(mid).a, r |-> loop.r, built |-> loop.built,
                   frees |-> <<old.events, Free(mid).events>>, stray |-> loop.stray]
             ELSE [a |-> mid, r |-> loop.r, built |-> loop.built,
                   frees |-> <<old.events>>, stray |-> {}]

NoAllocator ==
    [m_lCount |-> 0, m_lAllocated |-> 0, m_lFree |-> <<>>, committed |-> FALSE,
     decommitInProgress |-> FALSE, destroyed |-> FALSE, nextId |-> 1, allocs |-> 0]

NoAllocOp ==
    [op |-> "none", r |-> "S_OK", count |-> 0, first |-> 0, built |-> <<>>,
     frees |-> <<>>]

NoQuery ==
    [service |-> "none", bound |-> FALSE,
     out |-> [r |-> "none", delegated |-> FALSE, nullDeref |-> FALSE]]

AllocatorIdle ==
    /\ m_surfaces = <<>>
    /\ alloc = NoAllocator
    /\ outstanding = {}
    /\ stray = {}
    /\ allocOp = NoAllocOp
    /\ query = NoQuery

-----------------------------------------------------------------------------
(* Buffer negotiation: DecideBufferSize.                                   *)

\* getDecodeSurfacesCount(): 22 from Vista on, 16 before.
getDecodeSurfacesCount(vista) == IF vista THEN 22 ELSE 16

requestedBuffers_callerAlways(needCustom, vista, cBuffers) ==
    IF cBuffers < 1 THEN 1 ELSE cBuffers

\* requested.cBuffers as DecideBufferSize sets it.
requestedBuffers(needCustom, vista, cBuffers) ==
    IF needCustom THEN getDecodeSurfacesCount(vista)
    ELSE IF cBuffers < 1 THEN 1
    ELSE cBuffers

\* DecideBufferSize. c.headerOk: ExtractBitmapInfoFromMediaType finds a
\* bitmap header in the output type; c.propNull: prop is null; c.setR and
\* c.actual: what the downstream allocator's SetProperties answers.
DecideBufferSize(c, needCustom, vista) ==
    LET requested == [cBuffers |-> requestedBuffers(needCustom, vista, c.cBuffers),
                      cbBuffer |-> c.biSizeImage]
        none == [cBuffers |-> 0, cbBuffer |-> 0]
    IN  IF ~c.headerOk THEN [r |-> "E_FAIL", asked |-> FALSE, requested |-> none]
        ELSE IF c.propNull THEN [r |-> "E_POINTER", asked |-> FALSE, requested |-> none]
        ELSE IF FAILED(c.setR)
        THEN [r |-> c.setR, asked |-> TRUE, requested |-> requested]
        ELSE [r |-> IF (requested.cBuffers > c.actual.cBuffers)
                        \/ (requested.cbBuffer > c.actual.cbBuffer)
                    THEN "E_FAIL" ELSE "S_OK",
              asked |-> TRUE, requested |-> requested]

BufferCounts == {-1, 0, 1, 2, 15, 16, 17, 21, 22, 23, 30}

ImageSizes == {0, 1000, 1382400}

BufferCalls ==
    { [fn |-> "DecideBufferSize", done |-> FALSE, headerOk |-> h, propNull |-> n,
       cBuffers |-> b, biSizeImage |-> z, setR |-> sr,
       actual |-> [cBuffers |-> ab, cbBuffer |-> az],
       needCustom |-> c, vista |-> v,
       out |-> [r |-> "none", asked |-> FALSE,
                requested |-> [cBuffers |-> 0, cbBuffer |-> 0]]] :
        h \in BOOLEAN, n \in BOOLEAN, b \in {-1, 0, 1, 2, 30}, z \in ImageSizes,
        sr \in {"S_OK", "E_FAIL"}, ab \in BufferCounts, az \in ImageSizes,
        c \in BOOLEAN, v \in BOOLEAN }

-----------------------------------------------------------------------------
(* Modern-HW format and configuration: ConfirmDXVA2UncompFormat.           *)

\* Render targets GetDecoderRenderTargets lists for one decoder GUID.
MaxTargets == 2

\* Configurations GetDecoderConfigurations lists for one render target.
MaxConfigs == 2

\* selectedConfig before anything is stored in it.
NoConfig == [index |-> 0, ConfigBitstreamRaw |-> -1]

\* selectedFormat before anything is stored in it.
NoFormat == [index |-> 0, Format |-> "none"]

\* The configuration lists of one render target: configs[j] carries its
\* place in the list and its ConfigBitstreamRaw.
ConfigLists ==
    UNION { { [j \in 1..n |-> [index |-> j, ConfigBitstreamRaw |-> f[j]]] :
                f \in [1..n -> {0, 1, 2}] } : n \in 0..MaxConfigs }

\* One render target: its format, what GetDecoderConfigurations answers
\* for it, and the list it gives.
RenderTargets ==
    { [Format |-> "YV12", configR |-> "E_FAIL", configs |-> <<>>],
      [Format |-> "NV12", configR |-> "E_FAIL", configs |-> <<>>] }
    \cup { [Format |-> "NV12", configR |-> "S_OK", configs |-> c] : c \in ConfigLists }

TargetLists == UNION { [1..n -> RenderTargets] : n \in 0..MaxTargets }

\* The loop over configs from index j on, selected being *selectedConfig so
\* far: every configuration is stored, and the loop returns at the first
\* one with ConfigBitstreamRaw 2.
RECURSIVE FindConfiguration(_, _, _)
FindConfiguration(configs, j, selected) ==
    IF j > Len(configs)
    THEN [r |-> IF Len(configs) # 0 THEN "S_OK" ELSE "E_FAIL", config |-> selected]
    ELSE IF 2 = configs[j].ConfigBitstreamRaw
    THEN [r |-> "S_OK", config |-> configs[j]]
    ELSE FindConfiguration(configs, j + 1, configs[j])

\* The loop over formats from index i on: the first NV12 target whose
\* configurations can be listed decides.
RECURSIVE ConfirmFormats(_, _)
ConfirmFormats(formats, i) ==
    IF i > Len(formats)
    THEN [r |-> "E_FAIL", config |-> NoConfig, format |-> NoFormat]
    ELSE IF "NV12" # formats[i].Format
    THEN ConfirmFormats(formats, i + 1)
    ELSE IF FAILED(formats[i].configR)
    THEN ConfirmFormats(formats, i + 1)
    ELSE LET found == FindConfiguration(formats[i].configs, 1, NoConfig)
         IN  [r |-> found.r, config |-> found.config,
              format |-> [index |-> i, Format |-> formats[i].Format]]

\* ConfirmDXVA2UncompFormat. c.targetsR: what GetDecoderRenderTargets
\* answers; c.formats: the render targets it lists.
ConfirmDXVA2UncompFormat(c) ==
    IF FAILED(c.targetsR)
    THEN [r |-> c.targetsR, config |-> NoConfig, format |-> NoFormat]
    ELSE ConfirmFormats(c.formats, 1)

ConfirmCalls ==
    { [fn |-> "ConfirmDXVA2UncompFormat", done |-> FALSE, targetsR |-> t,
       formats |-> f,
       out |-> [r |-> "none", config |-> NoConfig, format |-> NoFormat]] :
        t \in {"S_OK", "E_FAIL"}, f \in TargetLists }

-----------------------------------------------------------------------------
(* The decode loop of Receive and NewSegment.                              *)

\* Largest data length of an input sample.
MaxData == 2

\* Passes of the decode loop followed in one Receive.
MaxIterations == 3

PointerResults == {"S_OK", "E_POINTER"}

TimeResults == {"S_OK", "VFW_S_NO_STOP_TIME", "VFW_E_SAMPLE_TIME_NOT_SET"}

AcquireResults == {"S_OK", "VFW_E_NOT_COMMITTED"}

DecodeResults == {"S_OK", "S_FALSE", "E_FAIL"}

ReorderResults == {"S_OK", "S_FALSE", "E_NOTIMPL", "E_ABORT"}

DeliverResults == {"S_OK", "S_FALSE", "VFW_E_NOT_CONNECTED"}

\* std::numeric_limits<int64>::min(), the stop time that stands for
\* "unknown", brought into the range of the model's integers.
MinTime == -1000000000

NoTimes == [start |-> 0, stop |-> 0, set |-> FALSE]

Times(start, stop) == [start |-> start, stop |-> stop, set |-> TRUE]

\* What GetTime stores in start and stop: VFW_S_NO_STOP_TIME comes with
\* stop = start + 1.
TimeStamps(timeR) ==
    IF timeR = "VFW_S_NO_STOP_TIME"
    THEN { Times(100, 101) }
    ELSE { Times(100, 50), Times(100, 100), Times(100, 200), Times(100, MinTime),
           Times(MinTime, MinTime) }

PresentationInterval_strict(start, stop, average) ==
    IF (stop < start) /\ (stop # MinTime)
    THEN Times(start, start + average)
    ELSE Times(start, stop)

\* if ((stop <= start) && (stop != min)) stop = start + m_averageTimePerFrame;
PresentationInterval(start, stop, average) ==
    IF (stop <= start) /\ (stop # MinTime)
    THEN Times(start, start + average)
    ELSE Times(start, stop)

LoopContinues_ge(dataRemaining) == dataRemaining >= 0

\* while (dataRemaining > 0)
LoopContinues(dataRemaining) == dataRemaining > 0

\* if (FAILED(r)) return r; after InitializeOutputSample.
AfterAcquire(r) == IF FAILED(r) THEN "return" ELSE "lock"

AfterDecode_fallThrough(r) == IF FAILED(r) THEN "return" ELSE "reorder"

\* if (S_FALSE == r) return S_OK; if (FAILED(r)) return r; after Decode.
AfterDecode(r) ==
    IF r = "S_FALSE" THEN "returnOK"
    ELSE IF FAILED(r) THEN "return"
    ELSE "reorder"

AfterReorder_forwardHeld(r) ==
    IF r = "E_NOTIMPL" \/ r = "S_FALSE" THEN "deliver"
    ELSE IF FAILED(r) THEN "return"
    ELSE "advance"

\* if (E_NOTIMPL == r) Deliver; if (FAILED(r)) return r; after
\* DisplayNextFrame.
AfterReorder(r) ==
    IF r = "E_NOTIMPL" THEN "deliver"
    ELSE IF FAILED(r) THEN "return"
    ELSE "advance"

AfterDeliver_ignore(r) == "advance"

\* if (FAILED(r)) return r; after Deliver.
AfterDeliver(r) == IF FAILED(r) THEN "return" ELSE "advance"

CanEnter_always(owner) == TRUE

\* AutoLock lock(m_decodeAccess): the constructor returns once the lock
\* is free.
CanEnter(owner) == owner = "none"

NoFailure == [step |-> "none", code |-> "none", pass |-> 0]

\* The streaming thread before its first Receive. pc: "idle", "acquire",
\* "lock", "decode" (Decode running), "reorder" (DisplayNextFrame to run
\* or running), "deliver", "done". ptr, time: what GetPointer and GetTime
\* answered; pass: passes of the loop begun; needMore: the pass whose
\* Decode answered S_FALSE; failure: the first step that failed; stamp:
\* start and stop as GetTime gave them; interval: the locals start and
\* stop from line 733 on; passed: the start and stop the latest Decode
\* was given.
NoReceive ==
    [pc |-> "idle", media |-> FALSE, dataLength |-> 0, dataRemaining |-> 0,
     usedBytes |-> 0, r |-> "none", ret |-> "none", ptr |-> "none",
     time |-> "none", pass |-> 0, acquired |-> 0, decodes |-> 0, reorders |-> 0,
     delivers |-> 0, needMore |-> 0, failure |-> NoFailure,
     stamp |-> NoTimes, interval |-> NoTimes, passed |-> NoTimes]

\* The control thread. pc: "idle", "wait" (NewSegment called, lock not yet
\* held), "flush" (lock held, flushing); duringStep: the call arrived
\* while a decode+reorder step was under way.
NoSegment == [pc |-> "idle", duringStep |-> FALSE]

\* return code; from inside the loop or before it: the locals start and
\* stop end with the call.
Return(x, code) ==
    [x EXCEPT !.pc = "done", !.ret = code, !.stamp = NoTimes,
              !.interval = NoTimes, !.passed = NoTimes]

\* dataRemaining -= usedBytes, and the loop test that follows.
Advance(x) ==
    IF LoopContinues(x.dataRemaining - x.usedBytes)
    THEN [x EXCEPT !.dataRemaining = @ - x.usedBytes, !.pc = "acquire"]
    ELSE Return([x EXCEPT !.dataRemaining = @ - x.usedBytes], x.r)

\* The first failing step of the call is noted.
NoteFailure(x, step, code) ==
    IF x.failure = NoFailure
    THEN [x EXCEPT !.failure = [step |-> step, code |-> code, pass |-> x.pass]]
    ELSE x

StreamIdle ==
    /\ rx = NoReceive
    /\ seg = NoSegment
    /\ m_decodeAccess = "none"

\* AvgTimePerFrame of the input media type: 25 frames a second.
AverageTimes == {400000}

\* No device handle opened so far. m_deviceHandle: the handle the filter's
\* member owns, 0 when it is empty; open: handles opened and not closed;
\* closes: CloseDeviceHandle calls made so far, per handle.
NoDevice == [m_deviceHandle |-> 0, open |-> {}, opened |-> 0, closes |-> <<>>]

\* Disconnections of the input pin followed in one behaviour.
MaxTeardowns == 1

\* The other thread is not inside any call. pc: "idle", "wait" (inside the
\* allocator's Free, FlushDXVADecoder called, lock not yet held), "flush"
\* (the backend is flushing); teardowns: backends BreakConnect has reset;
\* overlapped: a backend was reset while a decode+reorder step was using
\* it.
NoControl == [pc |-> "idle", teardowns |-> 0, overlapped |-> FALSE]

LateIdle ==
    /\ m_averageTimePerFrame = 1
    /\ dev = NoDevice
    /\ ctl = NoControl

-----------------------------------------------------------------------------
(* The filter's operations.                                                *)

Init ==
    /\ hw \in FilterHardware
    /\ call = NoCall
    /\ inputConnected = FALSE
    /\ outPin = "disconnected"
    /\ m_preDecode = NoCodec
    /\ m_decoder = NoDecoder
    /\ epoch = 0
    /\ neg = NoNegotiation
    /\ recv = "none"
    /\ AllocatorIdle
    /\ StreamIdle
    /\ LateIdle

\* CompleteConnect(PINDIR_INPUT): CreateCodec gives a codec for the stream
\* or fails, and then the connection is refused.
CompleteConnectInput ==
    /\ ~inputConnected
    /\ outPin # "connecting"
    /\ \E codec \in Streams \cup {NoCodec} :
        /\ m_preDecode' = codec
        /\ inputConnected' = codec.present
    /\ UNCHANGED <<hw, call, outPin, m_decoder, epoch, neg, recv>>
    /\ UNCHANGED <<allocVars, streamVars, lateVars>>

\* The output pin starts connecting to a renderer: GetConnected() is set
\* from here on. The input pin is connected by then.
BeginConnectOutput ==
    /\ outPin = "disconnected"
    /\ inputConnected
    /\ epoch < MaxConnects
    /\ outPin' = "connecting"
    /\ epoch' = epoch + 1
    /\ neg' = NoNegotiation
    /\ recv' = "none"
    /\ UNCHANGED <<hw, call, inputConnected, m_preDecode, m_decoder>>
    /\ UNCHANGED <<allocVars, streamVars, lateVars>>

\* GetCreateVideoAcceleratorData and the ActivateDXVA1 it calls, driven by
\* the renderer while it accepts the connection.
ActivateDXVA1 ==
    /\ outPin = "connecting"
    /\ \E accelOk \in BOOLEAN, decoderID \in DXVA1Profiles :
        \E o \in ActivateDXVA1Outcomes(m_decoder, m_preDecode, hw, accelOk,
                                        decoderID, epoch) :
            m_decoder' = o.decoder
    /\ UNCHANGED <<hw, call, inputConnected, outPin, m_preDecode, epoch, neg, recv>>
    /\ UNCHANGED <<allocVars, streamVars, lateVars>>

\* CompleteConnect(PINDIR_OUTPUT). initOk: what m_decoder->Init answers;
\* svc: the renderer's acceleration service; baseOk: whether the rest of
\* the connection (CTransformFilter::CompleteConnect, allocator agreement)
\* goes through.
CompleteConnectOutput ==
    /\ outPin = "connecting"
    /\ \E initOk \in BOOLEAN, svc \in Services, baseOk \in BOOLEAN :
        LET held == m_decoder
            after == BackendAfterConnect(held, initOk, svc, epoch)
            kept == after.kept
            attempt == after.attempt
            final == after.final
        IN  /\ m_decoder' = final
            /\ outPin' = IF baseOk THEN "connected" ELSE "disconnected"
            /\ neg' = [done |-> TRUE, ok |-> baseOk, held |-> held,
                       init |-> IF held = NoDecoder THEN "none"
                                ELSE IF initOk THEN "ok" ELSE "fail",
                       attempt |-> attempt,
                       software |-> kept = NoDecoder /\ attempt.r # "S_OK",
                       result |-> final.kind,
                       compat |-> checkHWCompatibilityForH264(
                            m_preDecode.width, m_preDecode.height,
                            m_preDecode.videoLevel, m_preDecode.refFrameCount, hw),
                       offer |-> Offer(svc)]
    /\ UNCHANGED <<hw, call, inputConnected, m_preDecode, epoch, recv>>
    /\ UNCHANGED <<allocVars, streamVars, lateVars>>

\* BreakConnect(PINDIR_INPUT).
BreakConnectInput ==
    /\ inputConnected
    /\ outPin # "connecting"
    /\ m_decoder' = NoDecoder
    /\ m_preDecode' = NoCodec
    /\ inputConnected' = FALSE
    /\ UNCHANGED <<hw, call, outPin, epoch, neg, recv>>
    /\ UNCHANGED <<allocVars, streamVars, lateVars>>

\* BreakConnect(PINDIR_OUTPUT): returns S_OK and resets nothing.
BreakConnectOutput ==
    /\ outPin = "connected"
    /\ outPin' = "disconnected"
    /\ UNCHANGED <<hw, call, inputConnected, m_preDecode, m_decoder, epoch, neg, recv>>
    /\ UNCHANGED <<allocVars, streamVars, lateVars>>

\* Receive. media: the sample belongs to AM_STREAM_MEDIA; r: what the
\* delivery of a non-media sample answers, or, with a backend there, what
\* the rest of the call (GetPointer, GetTime, the decode loop) ends with.
Receive ==
    /\ inputConnected
    /\ outPin = "connected"
    /\ \E media \in BOOLEAN, r \in {"S_OK", "E_FAIL"} :
        recv' = IF ~media THEN r
                ELSE IF m_decoder = NoDecoder THEN "E_UNEXPECTED"
                ELSE r
    /\ UNCHANGED <<hw, call, inputConnected, outPin, m_preDecode, m_decoder, epoch, neg>>
    /\ UNCHANGED <<allocVars, streamVars, lateVars>>

Next ==
    \/ CompleteConnectInput
    \/ BeginConnectOutput
    \/ ActivateDXVA1
    \/ CompleteConnectOutput
    \/ BreakConnectInput
    \/ BreakConnectOutput
    \/ Receive

Spec == Init /\ [][Next]_vars

-----------------------------------------------------------------------------
(* The advisor on its own: the arguments are drawn, the call is made.      *)

InitAdvisor ==
    /\ \/ hw \in AllHardware /\ call \in ClassifyCalls
       \/ hw = DefaultHardware /\ call \in ReachedCalls
    /\ inputConnected = FALSE
    /\ outPin = "disconnected"
    /\ m_preDecode = NoCodec
    /\ m_decoder = NoDecoder
    /\ epoch = 0
    /\ neg = NoNegotiation
    /\ recv = "none"
    /\ AllocatorIdle
    /\ StreamIdle
    /\ LateIdle

CallClassify ==
    /\ call.fn = "classify"
    /\ ~call.done
    /\ call' = [call EXCEPT
            !.done = TRUE,
            !.result = checkHWCompatibilityForH264(
                call.width, call.height, call.videoLevel, call.refFrameCount, hw),
            !.dpb41 =
                IF call.videoLevel >= 0 /\ MulInt32(call.width, call.height) # 0
                THEN {maxRefFramesDPB41(MulInt32(call.width, call.height))}
                ELSE {}]
    /\ UNCHANGED <<hw, inputConnected, outPin, m_preDecode, m_decoder, epoch, neg, recv>>
    /\ UNCHANGED <<allocVars, streamVars, lateVars>>

CallReached ==
    /\ call.fn = "reached"
    /\ ~call.done
    /\ call' = [call EXCEPT
            !.done = TRUE,
            !.reached = hasDriverVersionReached(
                PackVersion(call.version),
                call.than[1], call.than[2], call.than[3], call.than[4])]
    /\ UNCHANGED <<hw, inputConnected, outPin, m_preDecode, m_decoder, epoch, neg, recv>>
    /\ UNCHANGED <<allocVars, streamVars, lateVars>>

NextAdvisor == CallClassify \/ CallReached

SpecAdvisor == InitAdvisor /\ [][NextAdvisor]_vars

-----------------------------------------------------------------------------
(* The custom allocator on its own: the base allocator and the renderer    *)
(* drive Alloc, Free and the samples.                                      *)

FilterIdle ==
    /\ hw = DefaultHardware
    /\ call = NoCall
    /\ inputConnected = FALSE
    /\ outPin = "disconnected"
    /\ m_preDecode = NoCodec
    /\ m_decoder = NoDecoder
    /\ epoch = 0
    /\ neg = NoNegotiation
    /\ recv = "none"

InitCustomAllocator ==
    /\ FilterIdle
    /\ StreamIdle
    /\ LateIdle
    /\ m_surfaces \in SurfaceLists
    /\ alloc = NoAllocator
    /\ outstanding = {}
    /\ stray = {}
    /\ allocOp = NoAllocOp
    /\ query = NoQuery

\* Commit of the base allocator, which calls Alloc unless a Decommit is
\* still pending. count: the buffer count
\* SetProperties left in m_lCount; base: the answer of
\* CBaseAllocator::Alloc, VFW_E_SIZENOTSET when the count is not positive;
\* failAt: the slot whose sample constructor fails, -1 for none.
Commit ==
    /\ ~alloc.destroyed
    /\ ~alloc.committed
    /\ alloc.allocs < MaxAllocs
    /\ \E count \in 0..MaxBuffers, base \in {"S_OK", "S_FALSE", "VFW_E_SIZENOTSET"},
          failAt \in -1..(MaxBuffers - 1) :
        /\ count <= 0 => base = "VFW_E_SIZENOTSET"
        /\ failAt < count
        /\ LET res == Alloc([alloc EXCEPT !.m_lCount = count, !.allocs = @ + 1],
                            m_surfaces, base, failAt)
           IN  IF alloc.decommitInProgress
               THEN /\ alloc' = [alloc EXCEPT !.committed = TRUE,
                                              !.decommitInProgress = FALSE]
                    /\ allocOp' = [NoAllocOp EXCEPT !.op = "Commit"]
                    /\ UNCHANGED stray
               ELSE /\ alloc' = [res.a EXCEPT !.committed = ~FAILED(res.r)]
                    /\ stray' = stray \cup res.stray
                    /\ allocOp' = [op |-> "Alloc", r |-> res.r, count |-> count,
                                   first |-> alloc.nextId, built |-> res.built,
                                   frees |-> res.frees]
    /\ UNCHANGED <<m_surfaces, outstanding, query>>
    /\ UNCHANGED <<filterVars, streamVars, lateVars>>

\* Decommit of the base allocator: it calls Free at once unless fewer
\* samples are on the free list than m_lAllocated counts, and then leaves
\* Free to the ReleaseBuffer that returns the last one.
Decommit ==
    /\ ~alloc.destroyed
    /\ alloc.committed
    /\ IF Len(alloc.m_lFree) < alloc.m_lAllocated
       THEN /\ alloc' = [alloc EXCEPT !.committed = FALSE,
                                      !.decommitInProgress = TRUE]
            /\ allocOp' = [NoAllocOp EXCEPT !.op = "Decommit"]
       ELSE /\ alloc' = [Free(alloc).a EXCEPT !.committed = FALSE]
            /\ allocOp' = [NoAllocOp EXCEPT !.op = "Free",
                                            !.frees = <<Free(alloc).events>>]
    /\ UNCHANGED <<m_surfaces, outstanding, stray, query>>
    /\ UNCHANGED <<filterVars, streamVars, lateVars>>

\* ~CDXVA2Allocator, once no sample holds the allocator any more.
DestroyAllocator ==
    /\ ~alloc.destroyed
    /\ outstanding = {}
    /\ alloc' = [Free(alloc).a EXCEPT !.committed = FALSE, !.destroyed = TRUE]
    /\ allocOp' = [NoAllocOp EXCEPT !.op = "Destroy",
                                    !.frees = <<Free(alloc).events>>]
    /\ UNCHANGED <<m_surfaces, outstanding, stray, query>>
    /\ UNCHANGED <<filterVars, streamVars, lateVars>>

\* GetBuffer: the head of m_lFree goes downstream.
GetBuffer ==
    /\ alloc.committed
    /\ alloc.m_lFree # <<>>
    /\ Cardinality(outstanding) < MaxOutstanding
    /\ outstanding' = outstanding \cup {Head(alloc.m_lFree)}
    /\ alloc' = [alloc EXCEPT !.m_lFree = Tail(@)]
    /\ allocOp' = [NoAllocOp EXCEPT !.op = "GetBuffer"]
    /\ UNCHANGED <<m_surfaces, stray, query>>
    /\ UNCHANGED <<filterVars, streamVars, lateVars>>

\* The last Release of a sample: ReleaseBuffer puts it back on m_lFree and
\* completes a pending Decommit.
ReleaseBuffer ==
    /\ \E sample \in outstanding :
        LET back == [alloc EXCEPT !.m_lFree = <<sample>> \o @]
        IN  /\ outstanding' = outstanding \ {sample}
            /\ IF back.decommitInProgress /\ Len(back.m_lFree) = back.m_lAllocated
               THEN /\ alloc' = [Free(back).a EXCEPT !.decommitInProgress = FALSE]
                    /\ allocOp' = [NoAllocOp EXCEPT !.op = "Free",
                                                    !.frees = <<Free(back).events>>]
               ELSE /\ alloc' = back
                    /\ allocOp' = [NoAllocOp EXCEPT !.op = "ReleaseBuffer"]
    /\ UNCHANGED <<m_surfaces, stray, query>>
    /\ UNCHANGED <<filterVars, streamVars, lateVars>>

\* The renderer asks a sample it received for a service.
QueryService ==
    /\ \E sample \in outstanding,
          service \in {"MR_BUFFER_SERVICE", "MR_VIDEO_RENDER_SERVICE"} :
        \E out \in GetService(sample, service) :
            query' = [service |-> service,
                      bound |-> sample.m_surface # NullSurface, out |-> out]
    /\ UNCHANGED <<m_surfaces, alloc, outstanding, stray, allocOp>>
    /\ UNCHANGED <<filterVars, streamVars, lateVars>>

NextAllocator ==
    \/ Commit
    \/ Decommit
    \/ DestroyAllocator
    \/ GetBuffer
    \/ ReleaseBuffer
    \/ QueryService

SpecAllocator == InitCustomAllocator /\ [][NextAllocator]_vars

-----------------------------------------------------------------------------
(* Buffer negotiation on its own: the arguments and the downstream         *)
(* allocator's answer are drawn, the call is made.                         *)

InitBuffers ==
    /\ hw = DefaultHardware
    /\ call \in BufferCalls
    /\ inputConnected = FALSE
    /\ outPin = "disconnected"
    /\ m_preDecode = NoCodec
    /\ m_decoder = NoDecoder
    /\ epoch = 0
    /\ neg = NoNegotiation
    /\ recv = "none"
    /\ AllocatorIdle
    /\ StreamIdle
    /\ LateIdle

CallDecideBufferSize ==
    /\ call.fn = "DecideBufferSize"
    /\ ~call.done
    /\ call' = [call EXCEPT
            !.done = TRUE,
            !.out = DecideBufferSize(call, call.needCustom, call.vista)]
    /\ UNCHANGED <<hw, inputConnected, outPin, m_preDecode, m_decoder, epoch, neg, recv>>
    /\ UNCHANGED <<allocVars, streamVars, lateVars>>

NextBuffers == CallDecideBufferSize

SpecBuffers == InitBuffers /\ [][NextBuffers]_vars

-----------------------------------------------------------------------------
(* Format confirmation on its own: the service's lists are drawn, the call *)
(* is made.                                                                *)

InitConfirm ==
    /\ hw = DefaultHardware
    /\ call \in ConfirmCalls
    /\ inputConnected = FALSE
    /\ outPin = "disconnected"
    /\ m_preDecode = NoCodec
    /\ m_decoder = NoDecoder
    /\ epoch = 0
    /\ neg = NoNegotiation
    /\ recv = "none"
    /\ AllocatorIdle
    /\ StreamIdle
    /\ LateIdle

CallConfirmDXVA2UncompFormat ==
    /\ call.fn = "ConfirmDXVA2UncompFormat"
    /\ ~call.done
    /\ call' = [call EXCEPT !.done = TRUE, !.out = ConfirmDXVA2UncompFormat(call)]
    /\ UNCHANGED <<hw, inputConnected, outPin, m_preDecode, m_decoder, epoch, neg, recv>>
    /\ UNCHANGED <<allocVars, streamVars, lateVars>>

NextConfirm == CallConfirmDXVA2UncompFormat

SpecConfirm == InitConfirm /\ [][NextConfirm]_vars

-----------------------------------------------------------------------------
(* Legacy-HW finalisation on its own: the renderer calls ActivateDXVA1     *)
(* once while the output pin is connecting.                                *)

InitLegacy ==
    /\ hw \in FilterHardware
    /\ call \in ActivateCalls
    /\ m_preDecode \in Streams \cup {NoCodec}
    /\ inputConnected = m_preDecode.present
    /\ outPin = "connecting"
    /\ m_decoder \in { NoDecoder,
                       [kind |-> "DXVA1", id |-> "DXVA2_ModeH264_E", epoch |-> 1] }
    /\ epoch = 1
    /\ neg = NoNegotiation
    /\ recv = "none"
    /\ AllocatorIdle
    /\ StreamIdle
    /\ LateIdle

CallActivateDXVA1 ==
    /\ call.fn = "ActivateDXVA1"
    /\ ~call.done
    /\ \E o \in ActivateDXVA1Outcomes(m_decoder, m_preDecode, hw, call.accelOk,
                                      call.decoderID, epoch) :
        /\ m_decoder' = o.decoder
        /\ call' = [call EXCEPT
                !.done = TRUE,
                !.held = m_decoder,
                !.out = [r |-> o.r, compat |-> o.compat, fresh |-> o.fresh]]
    /\ UNCHANGED <<hw, inputConnected, outPin, m_preDecode, epoch, neg, recv>>
    /\ UNCHANGED <<allocVars, streamVars, lateVars>>

NextLegacy == CallActivateDXVA1

SpecLegacy == InitLegacy /\ [][NextLegacy]_vars

-----------------------------------------------------------------------------
(* Streaming: Receive on the streaming thread, one step at a time, and     *)
(* NewSegment on a control thread.                                         *)

StreamBackends ==
    { NoDecoder,
      [kind |-> "SW", id |-> "GUID_NULL", epoch |-> 1],
      [kind |-> "DXVA2", id |-> "DXVA2_ModeH264_E", epoch |-> 1] }

InitStream ==
    /\ hw = DefaultHardware
    /\ call = NoCall
    /\ inputConnected = TRUE
    /\ outPin = "connected"
    /\ m_preDecode \in { c \in Streams : c.videoLevel = 41 /\ c.refFrameCount = 4 }
    /\ m_decoder \in StreamBackends
    /\ epoch = 1
    /\ neg = NoNegotiation
    /\ recv = "none"
    /\ AllocatorIdle
    /\ StreamIdle
    /\ m_averageTimePerFrame \in AverageTimes
    /\ dev = NoDevice
    /\ ctl = NoControl

\* Receive up to the loop test: the pass-through of a non-media sample, the
\* backend check, GetPointer, GetTime, the presentation interval.
ReceiveBegin ==
    /\ rx.pc \in {"idle", "done"}
    /\ \E media \in BOOLEAN, dataLength \in 0..MaxData :
        LET x == [NoReceive EXCEPT !.media = media, !.dataLength = dataLength]
        IN  IF ~media
            THEN \E passR \in DeliverResults :
                    rx' = IF FAILED(passR)
                          THEN Return(NoteFailure(x, "passthrough", passR), passR)
                          ELSE Return(x, passR)
            ELSE IF m_decoder = NoDecoder
            THEN rx' = Return(x, "E_UNEXPECTED")
            ELSE \E ptrR \in PointerResults :
                    IF FAILED(ptrR)
                    THEN rx' = Return([x EXCEPT !.ptr = ptrR], ptrR)
                    ELSE \E timeR \in TimeResults :
                        LET y == [x EXCEPT !.ptr = ptrR, !.time = timeR, !.r = timeR,
                                           !.dataRemaining = dataLength]
                        IN  IF FAILED(timeR)
                            THEN rx' = Return(y, timeR)
                            ELSE \E stamp \in TimeStamps(timeR) :
                                LET z == [y EXCEPT
                                            !.stamp = stamp,
                                            !.interval = PresentationInterval(
                                                stamp.start, stamp.stop,
                                                m_averageTimePerFrame)]
                                IN  rx' = IF LoopContinues(dataLength)
                                          THEN [z EXCEPT !.pc = "acquire"]
                                          ELSE Return(z, timeR)
    /\ UNCHANGED <<seg, m_decodeAccess>>
    /\ UNCHANGED <<filterVars, allocVars, lateVars>>

\* InitializeOutputSample at the head of a pass.
ReceiveAcquire ==
    /\ rx.pc = "acquire"
    /\ rx.pass < MaxIterations
    /\ \E res \in AcquireResults :
        LET x == [rx EXCEPT !.pass = @ + 1, !.acquired = @ + 1, !.r = res]
            y == IF FAILED(res) THEN NoteFailure(x, "acquire", res) ELSE x
        IN  rx' = IF AfterAcquire(res) = "return" THEN Return(y, res)
                  ELSE [y EXCEPT !.pc = "lock"]
    /\ UNCHANGED <<seg, m_decodeAccess>>
    /\ UNCHANGED <<filterVars, allocVars, lateVars>>

\* AutoLock lock(m_decodeAccess) in the loop body.
ReceiveLock ==
    /\ rx.pc = "lock"
    /\ CanEnter(m_decodeAccess)
    /\ m_decodeAccess' = "Receive"
    /\ rx' = [rx EXCEPT !.pc = "decode"]
    /\ UNCHANGED seg
    /\ UNCHANGED <<filterVars, allocVars, lateVars>>

\* m_decoder->Decode returns; a return from here leaves the lock's scope.
ReceiveDecode ==
    /\ rx.pc = "decode"
    /\ \E res \in DecodeResults, usedBytes \in 0..rx.dataRemaining :
        LET x == [rx EXCEPT !.decodes = @ + 1, !.r = res, !.usedBytes = usedBytes,
                            !.needMore = IF res = "S_FALSE" THEN rx.pass ELSE @,
                            !.passed = rx.interval]
            y == IF FAILED(res) THEN NoteFailure(x, "decode", res) ELSE x
        IN  IF AfterDecode(res) = "returnOK"
            THEN rx' = Return(y, "S_OK") /\ m_decodeAccess' = "none"
            ELSE IF AfterDecode(res) = "return"
            THEN rx' = Return(y, res) /\ m_decodeAccess' = "none"
            ELSE rx' = [y EXCEPT !.pc = "reorder"] /\ UNCHANGED m_decodeAccess
    /\ UNCHANGED seg
    /\ UNCHANGED <<filterVars, allocVars, lateVars>>

\* m_decoder->DisplayNextFrame returns and the lock's scope ends.
ReceiveReorder ==
    /\ rx.pc = "reorder"
    /\ \E res \in ReorderResults :
        LET x == [rx EXCEPT !.reorders = @ + 1, !.r = res]
            y == IF FAILED(res) /\ res # "E_NOTIMPL"
                 THEN NoteFailure(x, "reorder", res) ELSE x
        IN  rx' = IF AfterReorder(res) = "deliver" THEN [y EXCEPT !.pc = "deliver"]
                  ELSE IF AfterReorder(res) = "return" THEN Return(y, res)
                  ELSE Advance(y)
    /\ m_decodeAccess' = "none"
    /\ UNCHANGED seg
    /\ UNCHANGED <<filterVars, allocVars, lateVars>>

\* m_pOutput->Deliver(outSample) after E_NOTIMPL.
ReceiveDeliver ==
    /\ rx.pc = "deliver"
    /\ \E res \in DeliverResults :
        LET x == [rx EXCEPT !.delivers = @ + 1, !.r = res]
            y == IF FAILED(res) THEN NoteFailure(x, "deliver", res) ELSE x
        IN  rx' = IF AfterDeliver(res) = "return" THEN Return(y, res)
                  ELSE Advance(y)
    /\ UNCHANGED <<seg, m_decodeAccess>>
    /\ UNCHANGED <<filterVars, allocVars, lateVars>>

InStep == {"decode", "reorder"}

\* NewSegment is called on the control thread.
NewSegmentBegin ==
    /\ seg.pc = "idle"
    /\ seg' = [pc |-> "wait", duringStep |-> rx.pc \in InStep]
    /\ UNCHANGED <<rx, m_decodeAccess>>
    /\ UNCHANGED <<filterVars, allocVars, lateVars>>

\* AutoLock lock(m_decodeAccess) in NewSegment.
NewSegmentLock ==
    /\ seg.pc = "wait"
    /\ CanEnter(m_decodeAccess)
    /\ m_decodeAccess' = "NewSegment"
    /\ seg' = [seg EXCEPT !.pc = "flush"]
    /\ UNCHANGED rx
    /\ UNCHANGED <<filterVars, allocVars, lateVars>>

\* FlushBuffers and m_decoder->Flush return, the lock's scope ends and the
\* base class is told of the segment.
NewSegmentFlush ==
    /\ seg.pc = "flush"
    /\ m_decodeAccess' = "none"
    /\ seg' = NoSegment
    /\ UNCHANGED rx
    /\ UNCHANGED <<filterVars, allocVars, lateVars>>

NextStream ==
    \/ ReceiveBegin
    \/ ReceiveAcquire
    \/ ReceiveLock
    \/ ReceiveDecode
    \/ ReceiveReorder
    \/ ReceiveDeliver
    \/ NewSegmentBegin
    \/ NewSegmentLock
    \/ NewSegmentFlush

SpecStream == InitStream /\ [][NextStream]_vars

\* The streaming thread keeps running once it is inside Receive: every
\* step of the call that can be taken is taken, the lock is granted to a
\* thread that keeps asking for it, and NewSegment gives the lock back.
\* Nothing makes the host call Receive or NewSegment again.
StreamFairness ==
    /\ WF_vars(ReceiveAcquire)
    /\ SF_vars(ReceiveLock)
    /\ WF_vars(ReceiveDecode)
    /\ WF_vars(ReceiveReorder)
    /\ WF_vars(ReceiveDeliver)
    /\ WF_vars(NewSegmentFlush)

SpecStreamLive == InitStream /\ [][NextStream]_vars /\ StreamFairness

-----------------------------------------------------------------------------
(* Streaming against the threads that reach the backend from outside: the  *)
(* allocator's Free and BreakConnect.                                      *)

\* CDXVA2Allocator::Free is entered (from Decommit, from Alloc, from the
\* destructor) and calls FlushDXVADecoder on the filter.
FreeBegin ==
    /\ ctl.pc = "idle"
    /\ m_decoder # NoDecoder
    /\ ctl' = [ctl EXCEPT !.pc = "wait"]
    /\ UNCHANGED <<m_averageTimePerFrame, dev>>
    /\ UNCHANGED <<filterVars, allocVars, streamVars>>

\* FlushDXVADecoder takes the decode lock, as every flush of the backend
\* does.
FlushDXVADecoderLock ==
    /\ ctl.pc = "wait"
    /\ CanEnter(m_decodeAccess)
    /\ m_decodeAccess' = "Free"
    /\ ctl' = [ctl EXCEPT !.pc = "flush"]
    /\ UNCHANGED <<rx, seg, m_averageTimePerFrame, dev>>
    /\ UNCHANGED <<filterVars, allocVars>>

\* The backend has flushed, the lock is given back and Free goes on to
\* delete the samples.
FlushDXVADecoderDone ==
    /\ ctl.pc = "flush"
    /\ m_decodeAccess' = "none"
    /\ ctl' = [ctl EXCEPT !.pc = "idle"]
    /\ UNCHANGED <<rx, seg, m_averageTimePerFrame, dev>>
    /\ UNCHANGED <<filterVars, allocVars>>

\* BreakConnect(PINDIR_INPUT) on the host's thread: m_decoder.reset() and
\* m_preDecode.reset(), with no lock taken.
BreakConnectTeardown ==
    /\ inputConnected
    /\ ctl.teardowns < MaxTeardowns
    /\ m_decoder' = NoDecoder
    /\ m_preDecode' = NoCodec
    /\ inputConnected' = FALSE
    /\ ctl' = [ctl EXCEPT
            !.teardowns = @ + 1,
            !.overlapped = @ \/ (m_decoder # NoDecoder /\ rx.pc \in InStep)]
    /\ UNCHANGED <<hw, call, outPin, epoch, neg, recv>>
    /\ UNCHANGED <<m_averageTimePerFrame, dev>>
    /\ UNCHANGED <<allocVars, streamVars>>

NextAccess ==
    \/ ReceiveBegin
    \/ ReceiveAcquire
    \/ ReceiveLock
    \/ ReceiveDecode
    \/ ReceiveReorder
    \/ ReceiveDeliver
    \/ FreeBegin
    \/ FlushDXVADecoderLock
    \/ FlushDXVADecoderDone
    \/ BreakConnectTeardown

SpecAccess == InitStream /\ [][NextAccess]_vars

-----------------------------------------------------------------------------
(* The device handle of modern-HW negotiation: connections and             *)
(* disconnections with the device manager's handles followed.              *)

InitDevice ==
    /\ FilterIdle
    /\ AllocatorIdle
    /\ StreamIdle
    /\ LateIdle

\* CompleteConnect(PINDIR_OUTPUT) with the device handle followed. opened:
\* when a call before the GUID loop fails, whether OpenDeviceHandle had
\* succeeded by then.
CompleteConnectOutputDevice ==
    /\ outPin = "connecting"
    /\ \E initOk \in BOOLEAN, svc \in Services, baseOk \in BOOLEAN,
          opened \in BOOLEAN :
        LET after == BackendAfterConnect(m_decoder, initOk, svc, epoch)
            tried == after.kept = NoDecoder
        IN  /\ svc.stage # "unavailable" => opened
            /\ ~tried => opened
            /\ m_decoder' = after.final
            /\ outPin' = IF baseOk THEN "connected" ELSE "disconnected"
            /\ neg' = [NoNegotiation EXCEPT
                        !.done = TRUE,
                        !.ok = baseOk,
                        !.attempt = after.attempt,
                        !.software = tried /\ after.attempt.r # "S_OK",
                        !.result = after.final.kind]
            /\ dev' = IF tried THEN DeviceAfterActivate(dev, after.attempt, opened)
                      ELSE dev
    /\ UNCHANGED <<hw, call, inputConnected, m_preDecode, epoch, recv>>
    /\ UNCHANGED <<m_averageTimePerFrame, ctl>>
    /\ UNCHANGED <<allocVars, streamVars>>

NextDevice ==
    \/ CompleteConnectInput
    \/ BeginConnectOutput
    \/ CompleteConnectOutputDevice
    \/ BreakConnectInput
    \/ BreakConnectOutput

SpecDevice == InitDevice /\ [][NextDevice]_vars

-----------------------------------------------------------------------------
(* Properties.                                                             *)

HasFlag(r, flag) == (r \div flag) % 2 = 1

\* s >= t in the lexicographic order of 4-tuples.
LexGE(s, t) ==
    \/ s = t
    \/ \E i \in 1..4 : s[i] > t[i] /\ \A j \in 1..(i - 1) : s[j] = t[j]

Reaches(x, y) ==
    hasDriverVersionReached(PackVersion(x), y[1], y[2], y[3], y[4])

\* Whether the installed vendor / device / driver passes its level 5.1 gate.
GatePassed(env) ==
    CASE env.vendor = "NVIDIA" ->
            LexGE(env.version,
                  IF env.vista THEN <<7, 15, 11, 7800>> ELSE <<6, 14, 11, 7800>>)
      [] env.vendor = "S3" -> TRUE
      [] env.vendor = "ATI" ->
            /\ env.device \div 256 \in {104, 148}
            /\ LexGE(env.version, <<8, 14, 1, 6105>>)
      [] OTHER -> FALSE

\* The ceiling refFrameCount is compared with: the vendor allowance when
\* the vendor's gate passed and the vendor has one, else the default.
EffectiveMaxRefFrames(env, width, area) ==
    IF env.vendor = "NVIDIA" /\ GatePassed(env)
    THEN IF env.vista THEN (IF width >= 1280 THEN 16 ELSE 11) ELSE 14
    ELSE IF env.vendor = "ATI" /\ GatePassed(env)
    THEN 16
    ELSE Min(11, DivInt32(8388608, area))

CallArea == MulInt32(call.width, call.height)

\* The last output-pin connection ran its negotiation and completed
\* successfully.
Negotiated == neg.done /\ neg.ok

Classified == call.fn = "classify" /\ call.done

\* C1: whenever an output-pin connection completes successfully a backend
\* is active, and no Receive ends in the "no active backend" error.
C1_BackendActiveForReceive ==
    [][ /\ (outPin = "connecting" /\ outPin' = "connected"
                => m_decoder' # NoDecoder)
        /\ recv' # "E_UNEXPECTED" ]_vars

\* C2: at output-pin connection a legacy-HW backend whose Init succeeds
\* stays active with neither modern-HW nor software attempted, and software
\* is the backend only when legacy-HW is absent or failed to initialise and
\* the modern-HW activation was made and failed.
C2_TierOrder ==
    Negotiated =>
        /\ (neg.held.kind = "DXVA1" /\ neg.init = "ok"
                => /\ neg.result = "DXVA1"
                   /\ neg.attempt = NoAttempt
                   /\ ~neg.software)
        /\ (neg.result = "SW"
                => /\ neg.attempt.r = "E_FAIL"
                   /\ (neg.held.kind # "DXVA1" \/ neg.init = "fail"))

\* C3 as claimed: the modern-HW negotiation ends in software only if every
\* recognised candidate would fail, so none that would succeed is left
\* untried.
C3_EveryCandidateTried ==
    (neg.done /\ neg.attempt.r # "none" /\ neg.software)
        => ~neg.offer.anyWouldSucceed

\* C3 as amended: the candidate whose creation is attempted is the first
\* recognised one that passes format/configuration negotiation, later ones
\* are not tried, and software is instantiated exactly when the service is
\* unavailable, no recognised candidate passes that negotiation, or this
\* first one fails renderer configuration or surface/decoder creation.
C3_FirstNegotiableDecides ==
    (neg.done /\ neg.attempt.r # "none") =>
        /\ neg.attempt.chosen = (IF neg.offer.available THEN neg.offer.first ELSE 0)
        /\ neg.software <=>
                \/ ~neg.offer.available
                \/ neg.offer.first = 0
                \/ ~neg.offer.evr
                \/ ~neg.offer.accel
                \/ neg.offer.firstCreate # "ok"

C3_Witness ==
    /\ neg.done
    /\ neg.software
    /\ neg.attempt.chosen = 1
    /\ neg.offer.anyWouldSucceed

\* C4: with no legacy-HW backend activated for this connection and no
\* recognised decoder identity offered, the connection ends with the
\* software backend active, no surfaces requested and no modern-HW decoder
\* created.
C4_NoIdentitiesMeansSoftware ==
    ( /\ Negotiated
      /\ ~(neg.held.kind = "DXVA1" /\ neg.held.epoch = epoch)
      /\ neg.offer.recognised = 0 )
        => /\ neg.result = "SW"
           /\ ~neg.attempt.surfaces
           /\ ~neg.attempt.created

\* C5: the output-pin disconnect tears down the backend and the pre-decode
\* context, and no backend is held when the next output connection begins.
C5_TornDownOnOutputDisconnect ==
    [][ /\ (outPin = "connected" /\ outPin' = "disconnected"
                => m_decoder' = NoDecoder /\ m_preDecode' = NoCodec)
        /\ (outPin = "disconnected" /\ outPin' = "connecting"
                => m_decoder = NoDecoder) ]_vars

\* C6: when the classify result of the connected stream contains
\* LEVEL_UNSUPPORTED, the backend after output-pin connection is software.
C6_LevelUnsupportedMeansSoftware ==
    (Negotiated /\ \E c \in neg.compat : HasFlag(c, DXVA_UNSUPPORTED_LEVEL))
        => neg.result = "SW"

\* C7: a returned classify result carries LEVEL_UNSUPPORTED if and only if
\* profileLevel >= 51 and the vendor gate has not passed; below 51 never.
C7_LevelUnsupportedIff ==
    Classified =>
        \A r \in call.result :
            HasFlag(r, DXVA_UNSUPPORTED_LEVEL)
                <=> (call.videoLevel >= 51 /\ ~GatePassed(hw))

C7_Witness ==
    /\ Classified
    /\ call.videoLevel = 51
    /\ hw.vendor = "NVIDIA"
    /\ call.result = {DXVA_UNSUPPORTED_LEVEL}

\* C8 as claimed: for any profileLevel and refFrameCount the result carries
\* TOO_MANY_REF_FRAMES if and only if refFrameCount exceeds the effective
\* maxRefFrames.
C8_TooManyRefFramesIff ==
    (Classified /\ CallArea # 0) =>
        \A r \in call.result :
            HasFlag(r, DXVA_TOO_MUCH_REF_FRAMES)
                <=> call.refFrameCount
                        > EffectiveMaxRefFrames(hw, call.width, CallArea)

\* C8 as amended: that equivalence holds for profileLevel >= 0; for a
\* negative profileLevel TOO_MANY_REF_FRAMES is never reported.
C8_TooManyRefFramesIffLevelKnown ==
    Classified =>
        \A r \in call.result :
            HasFlag(r, DXVA_TOO_MUCH_REF_FRAMES)
                <=> /\ call.videoLevel >= 0
                    /\ CallArea # 0
                    /\ call.refFrameCount
                            > EffectiveMaxRefFrames(hw, call.width, CallArea)

C8_Witness ==
    /\ Classified
    /\ call.videoLevel = -1
    /\ call.refFrameCount = 17
    /\ call.result = {0}

\* C9 as claimed: the default ceiling is min(11, floor(8388608 / area)) and
\* does not increase as area grows, area being width * height in 32-bit
\* signed arithmetic.
C9_DefaultCeiling ==
    Classified =>
        \A m \in call.dpb41 :
            /\ m = Min(11, 8388608 \div CallArea)
            /\ \A d \in Dimensions :
                (MulInt32(d[1], d[2]) # 0 /\ CallArea <= MulInt32(d[1], d[2]))
                    => m >= maxRefFramesDPB41(MulInt32(d[1], d[2]))

\* C9 as amended: the same, for products that are positive in 32-bit
\* signed arithmetic.
C9_DefaultCeilingPositiveArea ==
    (Classified /\ CallArea > 0) =>
        \A m \in call.dpb41 :
            /\ m = Min(11, 8388608 \div CallArea)
            /\ \A d \in Dimensions :
                (MulInt32(d[1], d[2]) > 0 /\ CallArea <= MulInt32(d[1], d[2]))
                    => m >= maxRefFramesDPB41(MulInt32(d[1], d[2]))

C9_Witness ==
    /\ Classified
    /\ call.width = 1920
    /\ call.height = 1088
    /\ call.dpb41 = {4}

\* C10: hasDriverVersionReached(v, a, b, c, d) is true exactly when the
\* 4-tuple of v is lexicographically >= (a, b, c, d), and the comparison is
\* reflexive, total, antisymmetric and transitive.
C10_ReachedIsLexicographicOrder ==
    (call.fn = "reached" /\ call.done) =>
        /\ call.reached <=> LexGE(call.version, call.than)
        /\ Reaches(call.version, call.version)
        /\ call.reached \/ Reaches(call.than, call.version)
        /\ (call.reached /\ Reaches(call.than, call.version))
                => call.version = call.than
        /\ \A z \in VersionTuples :
                (call.reached /\ Reaches(call.than, z)) => Reaches(call.version, z)

C10_Witness ==
    /\ call.fn = "reached"
    /\ call.done
    /\ call.version = <<7, 65535, 0, 7>>
    /\ call.than = call.version
    /\ call.reached

\* The samples on the free list, and those some holder can still use.
Pooled == { alloc.m_lFree[k] : k \in DOMAIN alloc.m_lFree }

Usable == Pooled \cup outstanding

\* The samples the last Alloc constructed.
ConstructedByOp ==
    { x \in Usable \cup stray :
        x.uid \in allocOp.first..(allocOp.first + Len(allocOp.built) - 1) }

AllocSucceeded == allocOp.op = "Alloc" /\ ~FAILED(allocOp.r)

AllocFailedPartWay ==
    allocOp.op = "Alloc" /\ FAILED(allocOp.r) /\ allocOp.built # <<>>

\* C11: a successful Alloc with buffer count N constructs its samples for
\* the slots N-1, N-2, ..., 0 in that order and leaves exactly N samples on
\* the free list, one per slot index of 0..N-1, each bound to the surface
\* kept for its own index; so does every Alloc after a Free.
C11_DescendingOneSamplePerSlot ==
    AllocSucceeded =>
        /\ allocOp.built = [k \in 1..allocOp.count |-> allocOp.count - k]
        /\ Len(alloc.m_lFree) = allocOp.count
        /\ Cardinality(Pooled) = allocOp.count
        /\ { x.m_surfaceID : x \in Pooled } = 0..(allocOp.count - 1)
        /\ \A x \in Pooled :
            /\ x.m_surfaceID + 1 \in DOMAIN m_surfaces
            /\ x.m_surface = m_surfaces[x.m_surfaceID + 1]

C11_Witness ==
    /\ AllocSucceeded
    /\ allocOp.count = 2
    /\ alloc.allocs = 2
    /\ allocOp.first > 1
    /\ Len(alloc.m_lFree) = 2

\* C12: when Alloc fails part-way the failure is returned, the free list is
\* empty, the allocated count is zero and no sample constructed during that
\* Alloc is left alive.
C12_FullRollback ==
    AllocFailedPartWay =>
        /\ alloc.m_lFree = <<>>
        /\ alloc.m_lAllocated = 0
        /\ ConstructedByOp = {}

\* C13: every Free, whether called by Decommit, by Alloc before it
\* allocates, by Alloc's rollback or by the destructor, makes the flush
\* request first and deletes samples only after it.
C13_FlushBeforeRelease ==
    \A i \in DOMAIN allocOp.frees :
        /\ allocOp.frees[i] # <<>>
        /\ allocOp.frees[i][1] = FlushRequest
        /\ \A k \in 2..Len(allocOp.frees[i]) : allocOp.frees[i][k].e = "delete"

C13_Witness ==
    /\ AllocFailedPartWay
    /\ Len(allocOp.frees) = 2
    /\ Len(allocOp.frees[2]) = 2
    /\ allocOp.frees[2][2].e = "delete"

\* C14: GetService with the buffer service on a sample bound to a surface
\* is delegated to that surface; any other service is answered
\* "unsupported service"; a null surface is never called through.
C14_BufferServiceDelegates ==
    query.service # "none" =>
        /\ (query.service = "MR_BUFFER_SERVICE" /\ query.bound) => query.out.delegated
        /\ query.service # "MR_BUFFER_SERVICE"
                => query.out.r = "MF_E_UNSUPPORTED_SERVICE"
        /\ ~query.out.nullDeref

\* C20: no two samples that are pooled or held downstream carry the same
\* slot index, also across a Free and the Alloc that follows it.
C20_NoSlotSharedByLiveSamples ==
    \A x \in Usable, y \in Usable : x.uid # y.uid => x.m_surfaceID # y.m_surfaceID

Negotiated19 == call.fn = "DecideBufferSize" /\ call.done

\* The count buffer negotiation is to ask for: the platform policy count
\* for hardware-backed buffers, else the caller's count, at least 1.
PolicyCount ==
    IF call.needCustom THEN (IF call.vista THEN 22 ELSE 16)
    ELSE IF call.cBuffers > 1 THEN call.cBuffers ELSE 1

DownstreamFallsShort ==
    \/ FAILED(call.setR)
    \/ call.actual.cBuffers < PolicyCount
    \/ call.actual.cbBuffer < call.biSizeImage

\* C19 as claimed: buffer negotiation requests the policy count and the
\* image size of the output format, and fails if and only if the downstream
\* allocator rejects the request or grants fewer or smaller buffers.
C19_FailsOnlyOnDownstream ==
    Negotiated19 =>
        /\ call.out.requested = [cBuffers |-> PolicyCount, cbBuffer |-> call.biSizeImage]
        /\ FAILED(call.out.r) <=> DownstreamFallsShort

\* C19 as amended: the request is made exactly when the output format
\* carries a bitmap header and the properties pointer is not null, it then
\* asks for the policy count and the image size, and the call fails if and
\* only if no request is made or the downstream allocator rejects it or
\* grants fewer or smaller buffers.
C19_RequestAndFailure ==
    Negotiated19 =>
        /\ call.out.asked <=> (call.headerOk /\ ~call.propNull)
        /\ call.out.asked =>
                call.out.requested
                    = [cBuffers |-> PolicyCount, cbBuffer |-> call.biSizeImage]
        /\ FAILED(call.out.r) <=> (~call.out.asked \/ DownstreamFallsShort)

C19_Witness ==
    /\ Negotiated19
    /\ call.needCustom
    /\ call.vista
    /\ call.cBuffers = 30
    /\ call.out.requested.cBuffers = 22
    /\ call.actual.cBuffers = 21
    /\ call.setR = "S_OK"
    /\ call.out.r = "E_FAIL"

\* No pass of the loop did anything: no output buffer asked for, no decode,
\* no reorder, nothing forwarded.
NothingDone ==
    /\ rx.acquired = 0
    /\ rx.decodes = 0
    /\ rx.reorders = 0
    /\ rx.delivers = 0

ReceivedEmptyMedia == rx.pc = "done" /\ rx.media /\ rx.dataLength = 0

NoFurtherStep ==
    /\ rx'.acquired <= rx.acquired
    /\ rx'.decodes <= rx.decodes
    /\ rx'.reorders <= rx.reorders
    /\ rx'.delivers <= rx.delivers

\* C15 as claimed, with a backend active: Receive on a media sample of data
\* length zero returns success and does no decode step, no reorder step,
\* asks for no output buffer and forwards nothing.
C15_EmptySampleSucceeds ==
    (ReceivedEmptyMedia /\ m_decoder # NoDecoder)
        => ~FAILED(rx.ret) /\ NothingDone

\* C15 as amended: such a Receive does none of these steps, and returns
\* E_UNEXPECTED with no backend active, else the failure of GetPointer,
\* else what GetTime answered, a success exactly when GetTime succeeded.
C15_EmptySampleDoesNothing ==
    ReceivedEmptyMedia =>
        /\ NothingDone
        /\ rx.ret = IF m_decoder = NoDecoder THEN "E_UNEXPECTED"
                    ELSE IF FAILED(rx.ptr) THEN rx.ptr
                    ELSE rx.time
        /\ ~FAILED(rx.ret) <=>
                /\ m_decoder # NoDecoder
                /\ rx.ptr = "S_OK"
                /\ rx.time \in {"S_OK", "VFW_S_NO_STOP_TIME"}

C15_Witness ==
    /\ ReceivedEmptyMedia
    /\ m_decoder # NoDecoder
    /\ rx.ret = "VFW_S_NO_STOP_TIME"

\* C16: once Decode answers S_FALSE in pass k, Receive has returned S_OK:
\* DisplayNextFrame was not called in pass k, the output buffer of pass k
\* was not forwarded, the lock is released, and no step follows in that
\* call; for k = 1 nothing was forwarded at all.
C16_NeedMoreInputReturnsAtOnce ==
    [][ /\ rx'.needMore # 0 =>
            /\ rx'.pc = "done"
            /\ rx'.ret = "S_OK"
            /\ rx'.acquired = rx'.needMore
            /\ rx'.decodes = rx'.needMore
            /\ rx'.reorders = rx'.needMore - 1
            /\ rx'.delivers <= rx'.needMore - 1
            /\ m_decodeAccess' # "Receive"
        /\ rx.needMore # 0 => NoFurtherStep ]_vars

C16_Witness ==
    /\ rx.needMore = 2
    /\ rx.pc = "done"
    /\ rx.delivers = 1
    /\ rx.ret = "S_OK"

\* C17: when acquiring the output buffer, Decode, DisplayNextFrame (other
\* than with E_NOTIMPL) or Deliver fails, Receive has returned exactly that
\* code, and no acquisition, decode, reorder or delivery follows in that
\* call.
C17_FailureReturnedAtOnce ==
    [][ /\ rx'.failure # NoFailure =>
            /\ rx'.pc = "done"
            /\ rx'.ret = rx'.failure.code
            /\ m_decodeAccess' # "Receive"
        /\ rx.failure # NoFailure => NoFurtherStep ]_vars

C17_Witness ==
    /\ rx.failure.step = "deliver"
    /\ rx.failure.pass = 2
    /\ rx.ret = "VFW_E_NOT_CONNECTED"
    /\ rx.delivers = 2

\* C18: NewSegment's flush never runs while Decode or DisplayNextFrame of a
\* pass is under way, the two exclude each other under m_decodeAccess, and
\* a NewSegment that arrives during such a step starts flushing only after
\* the step has ended.
C18_FlushExcludesDecodeStep ==
    [][ /\ ~(seg'.pc = "flush" /\ rx'.pc \in InStep)
        /\ (seg.pc = "wait" /\ seg'.pc = "flush") => rx.pc \notin InStep
        /\ (rx'.pc \in InStep) => m_decodeAccess' = "Receive"
        /\ (seg'.pc = "flush") => m_decodeAccess' = "NewSegment" ]_vars

C18_Witness ==
    /\ seg.pc = "flush"
    /\ seg.duringStep
    /\ m_decoder # NoDecoder
    /\ rx.pc = "deliver"

Confirmed21 == call.fn = "ConfirmDXVA2UncompFormat" /\ call.done

\* The render targets whose configurations are looked at: NV12 targets
\* whose configurations can be listed.
Listed(formats) ==
    { i \in DOMAIN formats :
        formats[i].Format = "NV12" /\ ~FAILED(formats[i].configR) }

\* The NV12 render target that decides the call, 0 when there is none.
DecidingTarget ==
    IF FAILED(call.targetsR) \/ Listed(call.formats) = {} THEN 0
    ELSE CHOOSE i \in Listed(call.formats) : \A k \in Listed(call.formats) : i <= k

RawBitstream(configs) == { j \in DOMAIN configs : configs[j].ConfigBitstreamRaw = 2 }

\* The first configuration carrying the raw bitstream flag, else the first
\* of the list.
Preferred(configs) ==
    IF RawBitstream(configs) # {}
    THEN configs[CHOOSE j \in RawBitstream(configs) :
                    \A k \in RawBitstream(configs) : j <= k]
    ELSE configs[1]

\* C21: for an NV12 render target that offers a non-empty list of
\* configurations, the selected configuration is the first one carrying the
\* raw bitstream flag (value 2) if any carries it and else the first of the
\* list, and the negotiation succeeds; it fails only when the list is empty.
C21_RawBitstreamElseFirst ==
    (Confirmed21 /\ DecidingTarget # 0) =>
        LET configs == call.formats[DecidingTarget].configs
        IN  /\ FAILED(call.out.r) <=> Len(configs) = 0
            /\ Len(configs) # 0 => call.out.config = Preferred(configs)

\* A finished ActivateDXVA1 for a decoder identity other than the one held,
\* with a codec and an accelerator there.
FinalisedNewIdentity ==
    /\ call.fn = "ActivateDXVA1"
    /\ call.done
    /\ m_preDecode.present
    /\ call.accelOk
    /\ call.held = NoDecoder \/ call.held.id # call.decoderID

\* What the advisor's classification of the stream is on this hardware.
StreamClassification ==
    checkHWCompatibilityForH264(m_preDecode.width, m_preDecode.height,
        m_preDecode.videoLevel, m_preDecode.refFrameCount, hw)

\* C22: finalising legacy-HW for a new decoder identity fails and leaves no
\* backend active if and only if the classification of the stream contains
\* LEVEL_UNSUPPORTED, with or without TOO_MANY_REF_FRAMES; otherwise the
\* legacy-HW backend is instantiated and the call succeeds.
C22_RejectedIffLevelUnsupported ==
    FinalisedNewIdentity =>
        \A c \in StreamClassification :
            IF HasFlag(c, DXVA_UNSUPPORTED_LEVEL)
            THEN FAILED(call.out.r) /\ m_decoder = NoDecoder
            ELSE /\ call.out.r = "S_OK"
                 /\ m_decoder = [kind |-> "DXVA1", id |-> call.decoderID,
                                 epoch |-> epoch]

\* Decode answered with a frame: neither "need more input" nor a failure.
ProducedFrame(r) == ~FAILED(r) /\ r # "S_FALSE"

\* C23: in every pass of the receive loop the display-reorder step is
\* consulted only after a decode step of that pass that produced a frame;
\* the loop forwards the output sample itself exactly when the reorder step
\* answers E_NOTIMPL, does not forward it on any other answer, and forwards
\* at most once per pass.
C23_ForwardOnlyWithoutReorderOpinion ==
    [][ /\ (rx'.reorders = rx.reorders + 1) =>
            /\ rx.pc = "reorder"
            /\ ProducedFrame(rx.r)
            /\ rx.decodes = rx.pass
            /\ rx.reorders = rx.pass - 1
            /\ (rx'.pc = "deliver") <=> (rx'.r = "E_NOTIMPL")
            /\ rx'.delivers = rx.delivers
        /\ (rx'.pc = "deliver" /\ rx.pc # "deliver") =>
            rx'.reorders = rx.reorders + 1
        /\ (rx'.delivers = rx.delivers + 1) =>
            /\ rx.pc = "deliver"
            /\ rx'.pc # "deliver"
            /\ rx'.reorders = rx.reorders
        /\ rx'.delivers <= rx'.reorders
        /\ rx'.reorders <= rx'.decodes ]_vars

C23_Witness ==
    /\ rx.pc = "done"
    /\ rx.pass = 2
    /\ rx.reorders = 2
    /\ rx.delivers = 1
    /\ rx.failure = NoFailure

\* The interval the claim asks for, from the start and stop GetTime gave.
SynthesizedInterval(stamp) ==
    IF stamp.stop <= stamp.start /\ stamp.stop # MinTime
    THEN Times(stamp.start, stamp.start + m_averageTimePerFrame)
    ELSE Times(stamp.start, stamp.stop)

\* C24: every decode step of a sample is given the same start and stop:
\* stop replaced by start + m_averageTimePerFrame when the sample's stop is
\* not after its start and is not the "unknown" value, start and stop as
\* they came otherwise.
C24_IntervalGivenToDecode ==
    [][ (rx.pc = "decode" /\ rx'.decodes = rx.decodes + 1) =>
            /\ rx.stamp.set
            /\ rx.interval = SynthesizedInterval(rx.stamp)
            /\ rx.passed.set => rx.passed = rx.interval
            /\ rx'.pc # "done" => rx'.passed = rx.interval ]_vars

C24_Witness ==
    /\ rx.pc = "reorder"
    /\ rx.pass = 2
    /\ rx.decodes = 2
    /\ rx.stamp = Times(100, 100)
    /\ rx.passed = Times(100, 400100)

InReceive == rx.pc \notin {"idle", "done"}

HandlesOpened == 1..dev.opened

\* C27: the device handle opened for a modern-HW negotiation attempt is
\* released exactly once on every exit path: it is never closed twice, and
\* once the connection attempt is over no handle is open unless a
\* modern-HW backend is active; with the software backend active after a
\* failed attempt, and after the backend is torn down, every handle opened
\* has been closed once.
C27_HandleReleasedExactlyOnce ==
    /\ \A h \in HandlesOpened : dev.closes[h] <= 1
    /\ (outPin # "connecting" /\ m_decoder.kind # "DXVA2") =>
            /\ dev.open = {}
            /\ \A h \in HandlesOpened : dev.closes[h] = 1
    /\ m_decoder.kind = "DXVA2" => Cardinality(dev.open) <= 1

====
